---- MODULE Spec2Model ----
(***************************************************************************)
(* The websocket relay of the whiteboard server: SocketManager             *)
(* (src/unnamed/part_002).  One action per synchronous segment of a        *)
(* handler: a segment runs from one await to the next, and Node.js runs it *)
(* without interruption.  A call to the session cache or to fetchSockets   *)
(* reads at the moment of the call; its result is used by the segment that *)
(* runs after the await.                                                   *)
(***************************************************************************)
EXTENDS Integers, Sequences, FiniteSets, TLC

\* ------------------------------------------------------------------ bounds
NConns == 3
MaxTasks == 2
\* Spec: what the clients do at most.
MaxConnects == 2
MaxHandshakes == 2
MaxOps == 1
MaxExpired == 1
\* SpecRoom: what the clients do at most.
RoomJoins == 3
RoomOps == 1
RoomTasks == 1
\* SpecRace: what the clients do at most.
RaceConns == 2
RaceJoins == 2
RaceOps == 2

\* --------------------------------------------------------------- constants
ReadOnlyPermission == 1
WritePermission == 3

Conns == 1..NConns
Slots == 1..MaxTasks

\* Room ids a client names in join-room and in broadcasts.
Docs == {"d1", "d2"}
\* The self-room of a connection is the room named by its own id.
SelfRoom(c) == "socket" \o ToString(c)

Users == {"u1", "u2"}
User(u) == [id |-> u, name |-> u]

\* Credentials a client may present; NoToken is a handshake without one.
Tokens == {"tRW", "tRO", "tBad"}
NoToken == "none"
SignedTokens == {"tRW", "tRO"}

\* undefined / null
NoData == [none |-> TRUE]

\* The claims a credential signs.
Claims(t) ==
    IF t = "tRW"
    THEN [user |-> User("u1"), fileId |-> "d1", permissions |-> WritePermission, token |-> t]
    ELSE [user |-> User("u2"), fileId |-> "d1", permissions |-> ReadOnlyPermission, token |-> t]

\* ------------------------------------------------------------ wire formats
\* A JSON document is a record; an ArrayBuffer is a sequence of bytes.
NoUser == [id |-> "nobody", name |-> "nobody"]
Absent == "absent"
Json(type, elements, pointer, user) ==
    [type |-> type, payload |-> [elements |-> elements, pointer |-> pointer, user |-> user]]

TypeCode(type) == IF type = "MOUSE_LOCATION" THEN 1 ELSE IF type = "SCENE_UPDATE" THEN 2 ELSE 3
CodeType(n) == IF n = 1 THEN "MOUSE_LOCATION" ELSE IF n = 2 THEN "SCENE_UPDATE" ELSE "IDLE_STATUS"
FieldCode(v) == IF v = Absent THEN 0 ELSE 1
CodeField(n, v) == IF n = 0 THEN Absent ELSE v
UserCode(u) ==
    IF u = NoUser THEN 0
    ELSE IF u.id = "u1" THEN 1 ELSE 2
CodeUser(n) == IF n = 0 THEN NoUser ELSE IF n = 1 THEN User("u1") ELSE User("u2")

\* Utils.convertStringToArrayBuffer(JSON.stringify(doc))
Stringify(doc) ==
    << 123, TypeCode(doc.type), FieldCode(doc.payload.elements),
       FieldCode(doc.payload.pointer), UserCode(doc.payload.user), 125 >>

ParseError == [error |-> "SyntaxError"]
\* JSON.parse(Utils.convertArrayBufferToString(buf))
Parse(buf) ==
    IF Len(buf) = 6 /\ buf[1] = 123 /\ buf[6] = 125
       /\ buf[2] \in 1..3 /\ buf[3] \in 0..1 /\ buf[4] \in 0..1 /\ buf[5] \in 0..2
    THEN Json(CodeType(buf[2]), CodeField(buf[3], "elems"), CodeField(buf[4], "xy"), CodeUser(buf[5]))
    ELSE ParseError

Garbage == << 123 >>
\* What a client submits as a durable broadcast, and its iv.
DurableBuffers == { Stringify(Json("SCENE_UPDATE", "elems", Absent, NoUser)), Garbage }
IVs == { << 7 >> }
\* What a client submits as a volatile broadcast: a pointer position that names
\* another user as its own, an event of another type, and bytes that do not parse.
VolatileBuffers ==
    { Stringify(Json("MOUSE_LOCATION", Absent, "xy", User("u1"))),
      Stringify(Json("IDLE_STATUS", Absent, Absent, NoUser)),
      Garbage }

\* --------------------------------------------------------------- the state
VARIABLES
    initPc,       \* SocketManager.init: "start", "install", "done", "aborted"
    adapter,      \* "default", "memory", "redis", "fallback"
    gatekeeper,   \* io.use(socketAuthenticateHandler) is installed
    connHandler,  \* io.on('connection', handleConnection) is installed
    expired,      \* the credentials whose expiry time has passed
    tokenCache,   \* session cache: credential -> SessionData
    socketData,   \* session cache: connection id -> SessionData
    conn,         \* per connection: the transport and handshake state
    rooms,        \* socket.rooms of each connection
    tasks,        \* the handler invocations suspended at an await
    sentTo,       \* per connection: the events the server sent to it, in order
    storeCalls,   \* per connection: the syncRoomData calls its handlers made, in order
    ran,          \* per connection: the handlers that have started for it
    thrown,       \* the handler invocations that ended in a rejected promise
    nOps,         \* the client operations so far, by kind
    joinLog       \* the join-room events in the order they arrived

vars == << initPc, adapter, gatekeeper, connHandler, expired, tokenCache, socketData,
           conn, rooms, tasks, sentTo, storeCalls, ran, thrown, nOps, joinLog >>

serverVars == << initPc, adapter, gatekeeper, connHandler >>

\* What only the arrival of an event changes.
arrivals == << joinLog >>

NoTask == [kind |-> "none"]

FreshConn ==
    [st |-> "new", open |-> FALSE, token |-> NoToken, pc |-> "none", decoded |-> NoData,
     listening |-> FALSE, authOk |-> FALSE, verified |-> FALSE, expiredAtHandshake |-> FALSE,
     left |-> {}]

Init ==
    /\ initPc = "start"
    /\ adapter = "default"
    /\ gatekeeper = FALSE
    /\ connHandler = FALSE
    /\ expired = {}
    /\ tokenCache = [t \in Tokens |-> NoData]
    /\ socketData = [c \in Conns |-> NoData]
    /\ conn = [c \in Conns |-> FreshConn]
    /\ rooms = [c \in Conns |-> {}]
    /\ tasks = [s \in Slots |-> NoTask]
    /\ sentTo = [c \in Conns |-> << >>]
    /\ storeCalls = [c \in Conns |-> << >>]
    /\ ran = [c \in Conns |-> {}]
    /\ thrown = {}
    /\ nOps = [join |-> 0, bcast |-> 0, vol |-> 0, close |-> 0]
    /\ joinLog = << >>

\* ----------------------------------------------------------------- helpers
\* An event the server sends: socket.emit, socket.broadcast.to(room).emit,
\* io.in(room).emit.  `from` is the connection whose handler sends it.
Event(ev, from, room, data, iv, list, vol) ==
    [ev |-> ev, from |-> from, room |-> room, data |-> data, iv |-> iv, list |-> list, vol |-> vol]

Signal(ev, from) == Event(ev, from, "", << >>, << >>, {}, FALSE)

\* The packet reaches the transport of every connection of S that is open.
Send(S, e) ==
    [c \in Conns |-> IF c \in S /\ conn[c].open THEN Append(sentTo[c], e) ELSE sentTo[c]]

\* io.in(room).fetchSockets(): the connections whose socket.rooms holds room.
Members(room) == { c \in Conns : room \in rooms[c] }

\* jwt.verify with ignoreExpiration: only the signature is checked.
JwtVerifyIgnoresExpiry(t) == t \in SignedTokens

\* jwt.verify(token, JWT_SECRET_KEY): the signature is ours and the expiry
\* has not passed.
JwtVerifyOk(t) == t \in SignedTokens /\ t \notin expired

\* SocketDataManager (the session cache).
GetCachedToken(t) == tokenCache[t]
SetCachedToken(t, decoded) == [tokenCache EXCEPT ![t] = decoded]
GetSocketData(c) == socketData[c]
SetSocketData(c, data) == [socketData EXCEPT ![c] = data]
DeleteSocketData(c) == [socketData EXCEPT ![c] = NoData]

\* ------------------------------------------------------ SocketManager.init
\* shouldUseRedis() is false: the default in-memory adapter stays.
UseDefaultAdapter == [adapter |-> "memory", pc |-> "install"]

\* setupRedisStreamsAdapter without its try/catch: a throw ends init.
SetupRedisStreamsAdapterNoCatch(ok) ==
    IF ok THEN [adapter |-> "redis", pc |-> "install"]
    ELSE [adapter |-> "default", pc |-> "aborted"]

\* setupRedisStreamsAdapter(): createAdapter either returns or throws; the
\* catch logs and falls back, and init goes on in both cases.
SetupRedisStreamsAdapter(ok) ==
    IF ok THEN [adapter |-> "redis", pc |-> "install"]
    ELSE [adapter |-> "fallback", pc |-> "install"]

InitAdapter ==
    /\ initPc = "start"
    /\ \E r \in {UseDefaultAdapter, SetupRedisStreamsAdapter(TRUE), SetupRedisStreamsAdapter(FALSE)} :
          /\ adapter' = r.adapter
          /\ initPc' = r.pc
    /\ UNCHANGED << arrivals, gatekeeper, connHandler, expired, tokenCache, socketData, conn, rooms,
                    tasks, sentTo, storeCalls, ran, thrown, nOps >>

InitInstall ==
    /\ initPc = "install"
    /\ gatekeeper' = TRUE
    /\ connHandler' = TRUE
    /\ initPc' = "done"
    /\ UNCHANGED << arrivals, adapter, expired, tokenCache, socketData, conn, rooms,
                    tasks, sentTo, storeCalls, ran, thrown, nOps >>

\* ------------------------------------------------------------ the handshake
\* next(new Error('Authentication error')): the transport answers with a
\* connect error carrying that message and drops the socket.
AuthError == << 65, 117, 116, 104 >>

\* A catch block that calls next() without the error.
RejectedButNext(c, cn) ==
    /\ conn' = [conn EXCEPT ![c] = [cn EXCEPT !.st = "handshake", !.pc = "next"]]
    /\ UNCHANGED sentTo

Rejected(c, cn) ==
    /\ conn' = [conn EXCEPT ![c] = [cn EXCEPT !.st = "rejected", !.pc = "none"]]
    /\ sentTo' = [sentTo EXCEPT ![c] =
          Append(@, Event("connect_error", c, "", AuthError, << >>, {}, FALSE))]

\* A client opens connection c and presents tok.  socketAuthenticateHandler
\* runs to its first await: a missing token throws, otherwise verifyToken
\* starts and asks the cache.
Connect(c, tok) ==
    /\ initPc = "done" /\ gatekeeper
    /\ conn[c].st = "new"
    /\ LET cn == [conn[c] EXCEPT !.open = TRUE, !.token = tok,
                                 !.expiredAtHandshake = (tok \in expired)]
       IN IF tok = NoToken
          THEN Rejected(c, cn)
          ELSE /\ conn' = [conn EXCEPT ![c] =
                     [cn EXCEPT !.st = "handshake", !.pc = "cached", !.decoded = GetCachedToken(tok)]]
               /\ UNCHANGED sentTo
    /\ UNCHANGED << serverVars, arrivals, expired, tokenCache, socketData, rooms, tasks,
                    storeCalls, ran, thrown, nOps >>

\* verifyToken after the cache answered: a hit is returned as it is; a miss
\* goes to jwt.verify, whose callback rejects or caches and resolves.
VerifyToken(c) ==
    /\ conn[c].st = "handshake" /\ conn[c].pc = "cached"
    /\ LET cn == conn[c] IN
       IF cn.decoded # NoData
       THEN /\ conn' = [conn EXCEPT ![c] = [cn EXCEPT !.pc = "verified"]]
            /\ UNCHANGED << tokenCache, sentTo >>
       ELSE IF JwtVerifyOk(cn.token)
       THEN /\ tokenCache' = SetCachedToken(cn.token, Claims(cn.token))
            /\ conn' = [conn EXCEPT ![c] =
                  [cn EXCEPT !.pc = "verified", !.decoded = Claims(cn.token), !.verified = TRUE]]
            /\ UNCHANGED sentTo
       ELSE /\ Rejected(c, cn)
            /\ UNCHANGED tokenCache
    /\ UNCHANGED << serverVars, arrivals, expired, socketData, rooms, tasks, storeCalls, ran, thrown, nOps >>

\* setSocketData(socket.id, decodedData) and, after its await, the end of
\* the try block: the read-only signal, then next().  The segment after the
\* await touches only this connection's own packets, so the two are one step.
\* socket.emit('read-only') without the test of the permission.
AuthAcceptAlwaysSignal(c, cn) ==
    /\ conn' = [conn EXCEPT ![c] = [cn EXCEPT !.pc = "next", !.authOk = TRUE]]
    /\ sentTo' = Send({c}, Signal("read-only", c))

AuthAccept(c, cn) ==
    /\ conn' = [conn EXCEPT ![c] = [cn EXCEPT !.pc = "next", !.authOk = TRUE]]
    /\ sentTo' = IF cn.decoded.permissions = ReadOnlyPermission
                 THEN Send({c}, Signal("read-only", c))
                 ELSE sentTo

AcceptSocket(c) ==
    /\ conn[c].st = "handshake" /\ conn[c].pc = "verified"
    /\ socketData' = SetSocketData(c, conn[c].decoded)
    /\ AuthAccept(c, conn[c])
    /\ UNCHANGED << serverVars, arrivals, expired, tokenCache, rooms, tasks, storeCalls,
                    ran, thrown, nOps >>

\* After next(): the transport, on its next tick, drops a socket whose client
\* has gone; otherwise the socket joins its self-room and 'connection' fires.
\* handleConnection sends init-room and registers the five listeners.
HandleConnection(c) ==
    /\ conn[c].st = "handshake" /\ conn[c].pc = "next"
    /\ IF conn[c].open /\ connHandler
       THEN /\ conn' = [conn EXCEPT ![c] = [@ EXCEPT !.st = "connected", !.pc = "none", !.listening = TRUE]]
            /\ rooms' = [rooms EXCEPT ![c] = {SelfRoom(c)}]
            /\ sentTo' = Send({c}, Signal("init-room", c))
       ELSE /\ conn' = [conn EXCEPT ![c] = [@ EXCEPT !.st = "closed", !.pc = "none"]]
            /\ UNCHANGED << rooms, sentTo >>
    /\ UNCHANGED << serverVars, arrivals, expired, tokenCache, socketData, tasks, storeCalls,
                    ran, thrown, nOps >>

\* The expiry time of a signed credential passes.
Expire(t) ==
    /\ t \in SignedTokens \ expired
    /\ expired' = expired \cup {t}
    /\ UNCHANGED << serverVars, arrivals, tokenCache, socketData, conn, rooms, tasks, sentTo,
                    storeCalls, ran, thrown, nOps >>

\* ------------------------------------------------------- handler invocations
Task(kind, c, pc, room, data, iv, sd) ==
    [kind |-> kind, c |-> c, pc |-> pc, room |-> room, data |-> data, iv |-> iv, sd |-> sd,
     socks |-> {}, got |-> {}, list |-> {}, ids |-> << >>, rest |-> {}]

FreeSlots == { s \in Slots : tasks[s] = NoTask }
HasFreeSlot == FreeSlots # {}
FirstFree == CHOOSE s \in FreeSlots : \A r \in FreeSlots : s <= r

Spawn(t) == [tasks EXCEPT ![FirstFree] = t]
Resume(s, t) == [tasks EXCEPT ![s] = t]
Finish(s) == [tasks EXCEPT ![s] = NoTask]

\* The promise of the handler rejects; nothing catches it.
Throw(s, at) ==
    /\ tasks' = Finish(s)
    /\ thrown' = thrown \cup {[kind |-> tasks[s].kind, c |-> tasks[s].c, at |-> at]}

RECURSIVE SortedSeq(_)
SortedSeq(S) ==
    IF S = {} THEN << >>
    ELSE LET m == CHOOSE x \in S : \A y \in S : x <= y
         IN << m >> \o SortedSeq(S \ {m})

\* The session-cache reads that sockets.map(async s => getSocketData(s.id))
\* issues, one per socket.
ReadAll(S) == { [socketId |-> c, data |-> GetSocketData(c)] : c \in S }
\* data.user of a missing entry is a TypeError.
AnyMissing(got) == \E g \in got : g.data = NoData
\* getUserSockets / getOtherUserSockets: { socketId, user } per socket.
UserSockets(got) == { [socketId |-> g.socketId, user |-> g.data.user] : g \in got }
\* userSockets.map(... data.user.id), in the order of the sockets.
UserIdOf(got, c) == (CHOOSE g \in got : g.socketId = c).data.user.id
UserIds(got) ==
    LET order == SortedSeq({ g.socketId : g \in got })
    IN [i \in 1..Len(order) |-> UserIdOf(got, order[i])]

\* getOtherUserSockets: sockets.filter(s => s.id !== currentSocketId)
OtherSockets(room, current) == Members(room) \ {current}

\* roomDataManager.syncRoomData(roomID, elements, userIds, userId, token)
StoreCall(room, elements, ids, author, token) ==
    [room |-> room, elements |-> elements, userIds |-> ids, author |-> author, token |-> token]

CallStore(c, call) == [storeCalls EXCEPT ![c] = Append(@, call)]

\* The snapshot the Room Store returns, as joined-data carries it.
SnapshotBuffer == Stringify(Json("SCENE_UPDATE", "elems", Absent, NoUser))

Listening(c) == conn[c].open /\ conn[c].st = "connected" /\ conn[c].listening

\* A packet for a socket that has no listener registered is dropped.
DropEvent(c) ==
    /\ conn[c].open /\ conn[c].st \in {"handshake", "rejected"} /\ ~conn[c].listening
    /\ UNCHANGED vars

\* ----------------------------------------------------------- joinRoomHandler
\* 'join-room' arrives: socket.join(roomID), then the await.
JoinRoom(c, room) ==
    /\ Listening(c) /\ HasFreeSlot
    /\ nOps' = [nOps EXCEPT !.join = @ + 1]
    /\ ran' = [ran EXCEPT ![c] = @ \cup {"join-room"}]
    /\ rooms' = [rooms EXCEPT ![c] = @ \cup {room}]
    /\ tasks' = Spawn(Task("join", c, "joined", room, << >>, << >>, NoData))
    /\ joinLog' = Append(joinLog, [c |-> c, room |-> room])
    /\ UNCHANGED << serverVars, expired, tokenCache, socketData, conn, sentTo, storeCalls, thrown >>

\* getUserSockets(roomID) starts: fetchSockets enumerates the room.  In
\* joinRoomHandler this is the segment after socket.join; in
\* serverBroadcastHandler it follows const userId = socketData.user.id.
GetUserSockets(s) ==
    /\ \/ tasks[s].kind = "join" /\ tasks[s].pc = "joined"
       \/ tasks[s].kind = "bcast" /\ tasks[s].pc = "author"
    /\ LET t == tasks[s] IN
       IF t.kind = "bcast" /\ t.sd = NoData
       THEN Throw(s, "socketData.user")
       ELSE /\ tasks' = Resume(s, [t EXCEPT !.pc = "fetchedUsers", !.socks = Members(t.room)])
            /\ UNCHANGED thrown
    /\ UNCHANGED << serverVars, arrivals, expired, tokenCache, socketData, conn, rooms, sentTo,
                    storeCalls, ran, nOps >>

\* getUserSockets / getOtherUserSockets after fetchSockets: one session-cache
\* read per socket.
LookupSockets(s) ==
    /\ tasks[s].kind # "none" /\ tasks[s].pc \in {"fetchedUsers", "fetchedOthers"}
    /\ tasks' = Resume(s, [tasks[s] EXCEPT
                              !.pc = IF @ = "fetchedUsers" THEN "lookedUsers" ELSE "lookedOthers",
                              !.got = ReadAll(tasks[s].socks)])
    /\ UNCHANGED << serverVars, arrivals, expired, tokenCache, socketData, conn, rooms, sentTo,
                    storeCalls, ran, thrown, nOps >>

\* getUserSockets returned; the userIds map reads the session cache again.
LookupUserIds(s) ==
    /\ tasks[s].kind # "none" /\ tasks[s].pc = "lookedUsers"
    /\ IF AnyMissing(tasks[s].got)
       THEN Throw(s, "getUserSockets")
       ELSE /\ tasks' = Resume(s, [tasks[s] EXCEPT !.pc = "lookedIds",
                                      !.list = UserSockets(tasks[s].got),
                                      !.got = ReadAll(tasks[s].socks)])
            /\ UNCHANGED thrown
    /\ UNCHANGED << serverVars, arrivals, expired, tokenCache, socketData, conn, rooms, sentTo,
                    storeCalls, ran, nOps >>

\* The disconnecting loop: for (const roomID of socket.rooms), skipping the
\* self-room; each turn starts with getOtherUserSockets(roomID, socket.id).
DiscNextRoom(s, t) ==
    IF t.rest = {}
    THEN tasks' = Finish(s)
    ELSE \E r \in t.rest :
            tasks' = Resume(s, [t EXCEPT !.room = r, !.rest = @ \ {r}, !.pc = "fetchedOthers",
                                         !.socks = OtherSockets(r, t.c)])

\* The userIds are complete.  joinRoomHandler goes on to read its own session
\* data; serverBroadcastHandler and disconnectingHandler call the Room Store.
HaveUserIds(s) ==
    /\ tasks[s].kind # "none" /\ tasks[s].pc = "lookedIds"
    /\ LET t == tasks[s] IN
       IF AnyMissing(t.got)
       THEN /\ Throw(s, "userIds")
            /\ UNCHANGED storeCalls
       ELSE IF t.kind = "join"
       THEN /\ tasks' = Resume(s, [t EXCEPT !.pc = "own", !.ids = UserIds(t.got),
                                            !.sd = GetSocketData(t.c)])
            /\ UNCHANGED << storeCalls, thrown >>
       ELSE /\ tasks' = Resume(s, [t EXCEPT !.pc = "syncing", !.ids = UserIds(t.got)])
            /\ storeCalls' = CallStore(t.c,
                  IF t.kind = "bcast"
                  THEN StoreCall(t.room, Parse(t.data).payload.elements, UserIds(t.got),
                                 t.sd.user.id, "undefined")
                  ELSE StoreCall(t.room, "null", UserIds(t.got), "undefined", "undefined"))
            /\ UNCHANGED thrown
    /\ UNCHANGED << serverVars, arrivals, expired, tokenCache, socketData, conn, rooms, sentTo, ran, nOps >>

\* joinRoomHandler: syncRoomData(roomID, null, userIds, null, socketData.token)
JoinSync(s) ==
    /\ tasks[s].kind = "join" /\ tasks[s].pc = "own"
    /\ LET t == tasks[s] IN
       IF t.sd = NoData
       THEN /\ Throw(s, "socketData.token")
            /\ UNCHANGED storeCalls
       ELSE /\ tasks' = Resume(s, [t EXCEPT !.pc = "syncing"])
            /\ storeCalls' = CallStore(t.c, StoreCall(t.room, "null", t.ids, "null", t.sd.token))
            /\ UNCHANGED thrown
    /\ UNCHANGED << serverVars, arrivals, expired, tokenCache, socketData, conn, rooms, sentTo, ran, nOps >>

\* socket.broadcast.to(roomID).emit in the place of this.io.in(roomID).emit
JoinPresenceToOthers(room, c) == Members(room) \ {c}

\* Who is sent the room-user-change of a join: this.io.in(roomID).emit
JoinPresenceRecipients(room, c) == Members(room)

\* Who is sent the room-user-change of a disconnect, and a client-broadcast:
\* socket.broadcast.to(roomID).emit
BroadcastRecipients(room, c) == Members(room) \ {c}

\* The presence list is fetched and sent whatever the Room Store answered.
JoinGoesOnAlways(result) == TRUE

\* if (room): only after a snapshot does joinRoomHandler go on to the
\* presence list.
JoinGoesOn(result) == result = "room"

\* The Room Store answers: a snapshot, no such room, or a failure.
SyncReturn(s, result) ==
    /\ tasks[s].kind # "none" /\ tasks[s].pc = "syncing"
    /\ LET t == tasks[s] IN
       IF result = "fail"
       THEN /\ Throw(s, "syncRoomData")
            /\ UNCHANGED sentTo
       ELSE IF t.kind = "join"
       THEN /\ sentTo' = Send({t.c},
                     IF result = "room"
                     THEN Event("joined-data", t.c, t.room, SnapshotBuffer, << >>, {}, FALSE)
                     ELSE Event("room-not-found", t.c, t.room, << >>, << >>, {}, FALSE))
            /\ tasks' = IF JoinGoesOn(result)
                        THEN Resume(s, [t EXCEPT !.pc = "fetchedOthers",
                                                 !.socks = OtherSockets(t.room, t.c)])
                        ELSE Finish(s)
            /\ UNCHANGED thrown
       ELSE IF t.kind = "bcast"
       THEN /\ tasks' = Finish(s)
            /\ UNCHANGED << sentTo, thrown >>
       ELSE /\ DiscNextRoom(s, t)
            /\ UNCHANGED << sentTo, thrown >>
    /\ UNCHANGED << serverVars, arrivals, expired, tokenCache, socketData, conn, rooms, storeCalls, ran, nOps >>

\* getOtherUserSockets returned: the presence list goes out.
OthersReturn(s) ==
    /\ tasks[s].kind # "none" /\ tasks[s].pc = "lookedOthers"
    /\ LET t == tasks[s]
           change == Event("room-user-change", t.c, t.room, << >>, << >>, UserSockets(t.got), FALSE)
       IN
       IF AnyMissing(t.got)
       THEN /\ Throw(s, "getOtherUserSockets")
            /\ UNCHANGED sentTo
       ELSE IF t.kind = "join"
       THEN /\ sentTo' = Send(JoinPresenceRecipients(t.room, t.c), change)
            /\ tasks' = Finish(s)
            /\ UNCHANGED thrown
       ELSE /\ sentTo' = IF UserSockets(t.got) # {}
                         THEN Send(BroadcastRecipients(t.room, t.c), change)
                         ELSE sentTo
            /\ tasks' = Resume(s, [t EXCEPT !.pc = "fetchedUsers", !.list = UserSockets(t.got),
                                            !.socks = Members(t.room)])
            /\ UNCHANGED thrown
    /\ UNCHANGED << serverVars, arrivals, expired, tokenCache, socketData, conn, rooms, storeCalls, ran, nOps >>

\* ----------------------------------------------------- serverBroadcastHandler
\* isSocketReadOnly: socketData ? socketData.permissions === 1 : false
IsReadOnly(sd) == IF sd # NoData THEN sd.permissions = ReadOnlyPermission ELSE FALSE

\* 'server-broadcast' arrives: isSocketReadOnly asks the session cache.
ServerBroadcast(c, room, data, iv) ==
    /\ Listening(c) /\ HasFreeSlot
    /\ nOps' = [nOps EXCEPT !.bcast = @ + 1]
    /\ ran' = [ran EXCEPT ![c] = @ \cup {"server-broadcast"}]
    /\ tasks' = Spawn(Task("bcast", c, "asked", room, data, iv, GetSocketData(c)))
    /\ UNCHANGED << serverVars, arrivals, expired, tokenCache, socketData, conn, rooms, sentTo,
                    storeCalls, thrown >>

\* emit('client-broadcast', encryptedData): the iv is left out.
ClientBroadcastNoIv(c, room, data, iv) == Event("client-broadcast", c, room, data, << >>, {}, FALSE)

\* The event the peers are sent: the arguments of the sender, as they came.
ClientBroadcast(c, room, data, iv) == Event("client-broadcast", c, room, data, iv, {}, FALSE)

\* The guard, the relay to the peers, the decoding, and the read of the
\* sender's own session data.
BroadcastRelay(s) ==
    /\ tasks[s].kind = "bcast" /\ tasks[s].pc = "asked"
    /\ LET t == tasks[s] IN
       IF t.room \notin rooms[t.c] \/ IsReadOnly(t.sd)
       THEN /\ tasks' = Finish(s)
            /\ UNCHANGED << sentTo, thrown >>
       ELSE /\ sentTo' = Send(BroadcastRecipients(t.room, t.c),
                              ClientBroadcast(t.c, t.room, t.data, t.iv))
            /\ IF Parse(t.data) = ParseError
               THEN Throw(s, "JSON.parse")
               ELSE /\ tasks' = Resume(s, [t EXCEPT !.pc = "author", !.sd = GetSocketData(t.c)])
                    /\ UNCHANGED thrown
    /\ UNCHANGED << serverVars, arrivals, expired, tokenCache, socketData, conn, rooms, storeCalls, ran, nOps >>

\* --------------------------------------------- serverVolatileBroadcastHandler
\* { user: socketData.user, ...payload.payload }: the client's user field wins.
VolatileEventDataSpreadLast(payload, sd) ==
    Json("MOUSE_LOCATION", payload.payload.elements, payload.payload.pointer,
         IF payload.payload.user # NoUser THEN payload.payload.user ELSE sd.user)

\* { type: 'MOUSE_LOCATION', payload: { ...payload.payload, user: socketData.user } }
VolatileEventData(payload, sd) ==
    Json("MOUSE_LOCATION", payload.payload.elements, payload.payload.pointer, sd.user)

\* 'server-volatile-broadcast' arrives: the payload is parsed, and a pointer
\* position asks the session cache.
ServerVolatileBroadcast(c, room, data) ==
    /\ Listening(c) /\ HasFreeSlot
    /\ nOps' = [nOps EXCEPT !.vol = @ + 1]
    /\ ran' = [ran EXCEPT ![c] = @ \cup {"server-volatile-broadcast"}]
    /\ IF Parse(data) = ParseError
       THEN /\ thrown' = thrown \cup {[kind |-> "vol", c |-> c, at |-> "JSON.parse"]}
            /\ UNCHANGED tasks
       ELSE IF Parse(data).type = "MOUSE_LOCATION"
       THEN /\ tasks' = Spawn(Task("vol", c, "asked", room, data, << >>, GetSocketData(c)))
            /\ UNCHANGED thrown
       ELSE UNCHANGED << tasks, thrown >>
    /\ UNCHANGED << serverVars, arrivals, expired, tokenCache, socketData, conn, rooms, sentTo, storeCalls >>

\* socket.volatile.broadcast.to(roomID).emit('client-broadcast', ...)
VolatileRelay(s) ==
    /\ tasks[s].kind = "vol" /\ tasks[s].pc = "asked"
    /\ LET t == tasks[s] IN
       IF t.sd = NoData
       THEN /\ Throw(s, "socketData.user")
            /\ UNCHANGED sentTo
       ELSE /\ sentTo' = Send(BroadcastRecipients(t.room, t.c),
                              Event("client-broadcast", t.c, t.room,
                                    Stringify(VolatileEventData(Parse(t.data), t.sd)),
                                    << >>, {}, TRUE))
            /\ tasks' = Finish(s)
            /\ UNCHANGED thrown
    /\ UNCHANGED << serverVars, arrivals, expired, tokenCache, socketData, conn, rooms, storeCalls, ran, nOps >>

\* ------------------------------------------------------------- disconnection
\* The transport's close of a connected socket, in one synchronous run:
\* 'disconnecting' fires (disconnectingHandler runs to its first await, the
\* session-cache read), the socket leaves all its rooms, 'disconnect' fires
\* (handleDisconnect runs to its first await, the session-cache delete).
LeaveAll(c) == [rooms EXCEPT ![c] = {}]

\* The rooms a closing connection is in, each with the members that remain.
Leaving(c) == { [room |-> r, peers |-> Members(r) \ {c}] : r \in rooms[c] \ {SelfRoom(c)} }

\* The client closes its connection.  A socket that is not connected yet (or
\* was refused) has no listeners: only the transport closes.
Close(c) ==
    /\ conn[c].open /\ conn[c].st \in {"handshake", "connected"}
    /\ IF conn[c].st = "connected"
       THEN /\ HasFreeSlot
            /\ ran' = [ran EXCEPT ![c] = @ \cup
                          (IF conn[c].listening THEN {"disconnecting", "disconnect"} ELSE {})]
            /\ tasks' = Spawn(Task("disc", c, "asked", "", << >>, << >>, GetSocketData(c)))
            /\ rooms' = LeaveAll(c)
            /\ socketData' = DeleteSocketData(c)
            /\ conn' = [conn EXCEPT ![c] = [@ EXCEPT !.open = FALSE, !.st = "closed", !.pc = "deleted",
                                                    !.left = Leaving(c)]]
       ELSE /\ conn' = [conn EXCEPT ![c].open = FALSE]
            /\ UNCHANGED << ran, tasks, rooms, socketData >>
    /\ nOps' = [nOps EXCEPT !.close = @ + 1]
    /\ UNCHANGED << serverVars, arrivals, expired, tokenCache, sentTo, storeCalls, thrown >>

\* handleDisconnect after its await: socket.removeAllListeners()
RemoveAllListeners(c) ==
    /\ conn[c].st = "closed" /\ conn[c].pc = "deleted"
    /\ conn' = [conn EXCEPT ![c] = [@ EXCEPT !.listening = FALSE, !.pc = "none"]]
    /\ UNCHANGED << serverVars, arrivals, expired, tokenCache, socketData, rooms, tasks, sentTo,
                    storeCalls, ran, thrown, nOps >>

\* disconnectingHandler after its first await: the log line reads the session
\* data, then the loop reads socket.rooms.
DisconnectingRooms(s) ==
    /\ tasks[s].kind = "disc" /\ tasks[s].pc = "asked"
    /\ LET t == tasks[s] IN
       IF t.sd = NoData
       THEN Throw(s, "socketData.fileId")
       ELSE /\ DiscNextRoom(s, [t EXCEPT !.rest = rooms[t.c] \ {SelfRoom(t.c)}])
            /\ UNCHANGED thrown
    /\ UNCHANGED << serverVars, arrivals, expired, tokenCache, socketData, conn, rooms, sentTo,
                    storeCalls, ran, nOps >>

\* ------------------------------------------------------------ specification
\* The handshakes in flight.
Handshaking == { c \in Conns : conn[c].st = "handshake" }

\* Connection ids are handed out in order.
NextConn(c) == \A d \in Conns : d < c => conn[d].st # "new"

\* What the server does once an event has arrived: the continuations of the
\* handlers, each after one await.
ServerStep ==
    \/ InitAdapter
    \/ InitInstall
    \/ \E c \in Conns : VerifyToken(c)
    \/ \E c \in Conns : AcceptSocket(c)
    \/ \E c \in Conns : HandleConnection(c)
    \/ \E s \in Slots : GetUserSockets(s)
    \/ \E s \in Slots : LookupSockets(s)
    \/ \E s \in Slots : LookupUserIds(s)
    \/ \E s \in Slots : HaveUserIds(s)
    \/ \E s \in Slots : JoinSync(s)
    \/ \E s \in Slots : OthersReturn(s)
    \/ \E s \in Slots : BroadcastRelay(s)
    \/ \E s \in Slots : VolatileRelay(s)
    \/ \E c \in Conns : RemoveAllListeners(c)
    \/ \E s \in Slots : DisconnectingRooms(s)

Ops == nOps.join + nOps.bcast + nOps.vol
Running == { s \in Slots : tasks[s] # NoTask }

\* The clients, the clock and the Room Store: any credential, any room, a
\* close at any moment, credentials that expire.
Next ==
    \/ ServerStep
    \/ \E c \in 1..MaxConnects, tok \in Tokens \cup {NoToken} :
          NextConn(c) /\ Cardinality(Handshaking) < MaxHandshakes /\ Connect(c, tok)
    \/ \E t \in Tokens : Cardinality(expired) < MaxExpired /\ Expire(t)
    \/ \E c \in Conns : DropEvent(c)
    \/ \E c \in Conns, room \in Docs : Ops < MaxOps /\ JoinRoom(c, room)
    \/ \E c \in Conns, room \in Docs, data \in DurableBuffers, iv \in IVs :
          Ops < MaxOps /\ ServerBroadcast(c, room, data, iv)
    \/ \E c \in Conns, room \in Docs, data \in VolatileBuffers :
          Ops < MaxOps /\ ServerVolatileBroadcast(c, room, data)
    \/ \E c \in Conns : Close(c)
    \/ \E s \in Slots, result \in {"room", "none", "fail"} : SyncReturn(s, result)

Spec == Init /\ [][Next]_vars

\* One document: clients with signed credentials that connect one after the
\* other, stay through their handshake, join room "d1" once each, and send
\* their next event when the server has answered the last one.
RoomReady == Handshaking = {} /\ Cardinality(Running) < RoomTasks
RoomOthers == nOps.bcast + nOps.vol + nOps.close

NextRoom ==
    \/ ServerStep
    \/ \E c \in Conns, tok \in SignedTokens :
          NextConn(c) /\ RoomReady /\ Connect(c, tok)
    \/ \E c \in Conns :
          RoomReady /\ "d1" \notin rooms[c] /\ nOps.join < RoomJoins /\ JoinRoom(c, "d1")
    \/ \E c \in Conns, data \in DurableBuffers, iv \in IVs :
          RoomReady /\ RoomOthers < RoomOps /\ ServerBroadcast(c, "d1", data, iv)
    \/ \E c \in Conns, data \in VolatileBuffers :
          RoomReady /\ RoomOthers < RoomOps /\ ServerVolatileBroadcast(c, "d1", data)
    \/ \E c \in Conns :
          RoomReady /\ conn[c].st = "connected" /\ RoomOthers < RoomOps /\ Close(c)
    \/ \E s \in Slots, result \in {"room", "none"} : SyncReturn(s, result)

SpecRoom == Init /\ [][NextRoom]_vars

\* One document, handlers that overlap: two clients of user u1 connect one
\* after the other and join room "d1"; an event may arrive while the handler
\* of an earlier one is suspended at an await.  The k-th durable broadcast is
\* RaceData[k] with iv << k >>.
RaceData ==
    << Stringify(Json("SCENE_UPDATE", "elems", Absent, NoUser)),
       Stringify(Json("SCENE_UPDATE", Absent, "xy", NoUser)) >>
RaceOthers == nOps.bcast + nOps.vol + nOps.close

NextRace ==
    \/ ServerStep
    \/ \E c \in 1..RaceConns :
          NextConn(c) /\ Handshaking = {} /\ Running = {} /\ Connect(c, "tRW")
    \/ \E c \in Conns :
          "d1" \notin rooms[c] /\ nOps.join < RaceJoins /\ JoinRoom(c, "d1")
    \/ \E c \in Conns :
          /\ RaceOthers < RaceOps /\ nOps.join = RaceJoins
          /\ ServerBroadcast(c, "d1", RaceData[nOps.bcast + 1], << nOps.bcast + 1 >>)
    \/ \E c \in Conns :
          /\ RaceOthers < RaceOps /\ nOps.join = RaceJoins
          /\ ServerVolatileBroadcast(c, "d1", Stringify(Json("MOUSE_LOCATION", Absent, "xy", NoUser)))
    \/ \E c \in Conns :
          conn[c].st = "connected" /\ RaceOthers < RaceOps /\ Close(c)
    \/ \E s \in Slots, result \in {"room", "none"} : SyncReturn(s, result)

SpecRace == Init /\ [][NextRace]_vars

\* ------------------------------------------------------------------ claims
Events(c) == { sentTo[c][i] : i \in DOMAIN sentTo[c] }
Identity(c) == [socketId |-> c, user |-> conn[c].decoded.user]
Joined(c, room) == \E i \in DOMAIN joinLog : joinLog[i] = [c |-> c, room |-> room]
Count(c, P(_)) == Cardinality({ i \in DOMAIN sentTo[c] : P(sentTo[c][i]) })

\* C1: no join-room, server-broadcast, server-volatile-broadcast, disconnecting
\* or disconnect handler runs for a connection, no listener is registered for
\* it and it is in no room, before its handshake has succeeded; a connection
\* whose handshake was rejected never has a handler run and is never part of
\* a room or of an enumeration of one.
C1_HandlersOnlyAfterHandshake ==
    \A c \in Conns :
        /\ (ran[c] # {} \/ conn[c].listening \/ rooms[c] # {}) => conn[c].authOk
        /\ conn[c].st = "rejected" =>
              /\ ran[c] = {} /\ rooms[c] = {}
              /\ \A s \in Slots : tasks[s] # NoTask => tasks[s].c # c /\ c \notin tasks[s].socks

\* A connection was refused for its bad credential, and a handler has run for
\* another one, whose handshake succeeded.
C1_Witness ==
    \E c, d \in Conns :
        /\ conn[c].st = "rejected" /\ conn[c].token = "tBad"
        /\ conn[d].authOk /\ "join-room" \in ran[d] /\ ran[c] = {}

\* C4: a handshake that presents a credential already expired when it starts
\* is never accepted, whatever earlier handshakes left in the credential cache.
C4_ExpiredCredentialRejected ==
    \A c \in Conns :
        conn[c].expiredAtHandshake =>
            ~conn[c].authOk /\ ~conn[c].listening /\ rooms[c] = {} /\ socketData[c] = NoData

\* C9: init never ends without having installed the gatekeeper and the
\* connection handler: after the adapter setup, failed or not, the
\* installation is the step that follows, and it is always possible.
C9_InitSurvivesAdapterFailure ==
    /\ initPc # "aborted"
    /\ adapter = "fallback" => initPc \in {"install", "done"}
    /\ initPc = "install" => ENABLED InitInstall
    /\ initPc = "done" => gatekeeper /\ connHandler
    /\ (\E c \in Conns : conn[c].st # "new") => gatekeeper /\ connHandler

\* The adapter setup failed, and a connection accepted afterwards was relayed
\* the durable broadcast of another one.
C9_Witness ==
    /\ adapter = "fallback"
    /\ \E c, d \in Conns :
          /\ c # d /\ conn[c].st = "connected" /\ conn[d].st = "connected"
          /\ \E e \in Events(d) : e.ev = "client-broadcast" /\ e.from = c /\ ~e.vol

\* C2: no client-broadcast that reaches a connection was caused by a sender
\* whose session permission level is 1 (read-only), be it durable or volatile.
C2_ReadOnlyNeverRelayed ==
    \A d \in Conns : \A e \in Events(d) :
        (e.ev = "client-broadcast" /\ e.from # d) =>
            conn[e.from].decoded.permissions # ReadOnlyPermission

\* C3: a broadcast for a room its sender never joined has no effect: no
\* connection holds a client-broadcast for that room from that sender, the
\* Room Store was not called for it, and nothing came back to the sender.
C3_BroadcastOutsideRoomIsNoOp ==
    \A c \in Conns :
        /\ \A d \in Conns : \A e \in Events(d) :
              (e.ev = "client-broadcast" /\ e.from = c) => Joined(c, e.room)
        /\ \A i \in DOMAIN storeCalls[c] : Joined(c, storeCalls[c][i].room)
        /\ \A e \in Events(c) : (e.from = c /\ e.room # "") => Joined(c, e.room)

\* C5: a was alone in the room, b joined it and was sent the snapshot, and b's
\* join has run to its end: a holds a room-user-change of that join whose
\* member list is exactly b's identity.
C5_FirstMemberLearnsJoiner ==
    \A a, b \in Conns :
        ( /\ a # b
          /\ joinLog = << [c |-> a, room |-> "d1"], [c |-> b, room |-> "d1"] >>
          /\ nOps.close = 0
          /\ Running = {} /\ thrown = {}
          /\ \E e \in Events(b) : e.ev = "joined-data" /\ e.from = b /\ e.room = "d1" )
        => \E e \in Events(a) :
              /\ e.ev = "room-user-change" /\ e.from = b /\ e.room = "d1"
              /\ e.list = {Identity(b)}

\* C6: a has disconnected from a room in which two connections remain, and
\* its disconnecting handler has run to its end: each of the two holds exactly
\* one room-user-change of that disconnect, and its list is the two of them.
C6_RemainingMembersLearnDisconnect ==
    \A a \in Conns :
        ( /\ conn[a].st = "closed" /\ "disconnecting" \in ran[a]
          /\ Running = {} /\ thrown = {} )
        => \A l \in conn[a].left :
              Cardinality(l.peers) = 2 =>
                 \A p \in l.peers :
                    /\ Count(p, LAMBDA e : e.ev = "room-user-change" /\ e.from = a
                                           /\ e.room = l.room) = 1
                    /\ \A e \in Events(p) :
                          (e.ev = "room-user-change" /\ e.from = a /\ e.room = l.room)
                             => e.list = { Identity(q) : q \in l.peers }

\* C7: the step that accepts a durable broadcast from a member of the room
\* whose session permission is not read-only appends, for every other
\* connection in the room and for no one else, one client-broadcast that
\* carries the data and the iv exactly as the sender submitted them.
C7_DurableRelayedVerbatim ==
    [][\A s \in Slots :
          LET t == tasks[s] IN
          ( /\ t.kind = "bcast" /\ t.pc = "asked" /\ tasks'[s] # t
            /\ t.room \in rooms[t.c]
            /\ conn[t.c].decoded.permissions # ReadOnlyPermission )
          => \A d \in Conns :
                sentTo'[d] =
                   IF d \in Members(t.room) /\ d # t.c
                   THEN Append(sentTo[d], [ev |-> "client-broadcast", from |-> t.c,
                                           room |-> t.room, data |-> t.data, iv |-> t.iv,
                                           list |-> {}, vol |-> FALSE])
                   ELSE sentTo[d]]_vars

\* A writable member's scene update, with its iv, reached two other members
\* of the room and not the sender.
C7_Witness ==
    \E c, d, e \in Conns :
        /\ Cardinality({c, d, e}) = 3
        /\ conn[c].decoded # NoData /\ conn[c].decoded.permissions = WritePermission
        /\ \A x \in {d, e} : \E ev \in Events(x) :
              /\ ev.ev = "client-broadcast" /\ ev.from = c /\ ~ev.vol
              /\ ev.data = Stringify(Json("SCENE_UPDATE", "elems", Absent, NoUser))
              /\ ev.iv = << 7 >>
        /\ \A ev \in Events(c) : ev.ev # "client-broadcast"

\* C8: the arrival of a volatile broadcast sends nothing and calls no store,
\* and only a MOUSE_LOCATION payload leaves a handler pending; when that
\* handler resumes with the sender's session data it ends, calls no store, and
\* appends for every other member of the room, and for no one else, one
\* volatile client-broadcast of type MOUSE_LOCATION that keeps the client's
\* fields and carries the sender's session user in the place of the client's.
C8_VolatileTaggedNeverStored ==
    [][ /\ nOps'.vol # nOps.vol =>
              /\ sentTo' = sentTo /\ storeCalls' = storeCalls
              /\ \A s \in Slots :
                    tasks'[s] # tasks[s] =>
                       /\ tasks'[s].kind = "vol"
                       /\ Parse(tasks'[s].data).type = "MOUSE_LOCATION"
        /\ \A s \in Slots :
              LET t == tasks[s] IN
              (t.kind = "vol" /\ tasks'[s] # t /\ t.sd # NoData) =>
                 /\ tasks'[s] = NoTask
                 /\ storeCalls' = storeCalls
                 /\ \A d \in Conns :
                       sentTo'[d] =
                          IF d \in Members(t.room) /\ d # t.c
                          THEN Append(sentTo[d],
                                  [ev |-> "client-broadcast", from |-> t.c, room |-> t.room,
                                   data |-> Stringify(Json("MOUSE_LOCATION",
                                                           Parse(t.data).payload.elements,
                                                           Parse(t.data).payload.pointer,
                                                           conn[t.c].decoded.user)),
                                   iv |-> << >>, list |-> {}, vol |-> TRUE])
                          ELSE sentTo[d] ]_vars

\* A connection of user u2 sent a pointer position that names u1; another
\* member of the room was sent it with u2 in the user field, and no store call
\* was made for the sender.
C8_Witness ==
    \E c, d \in Conns :
        /\ c # d /\ conn[c].decoded # NoData /\ conn[c].decoded.user.id = "u2"
        /\ "server-volatile-broadcast" \in ran[c]
        /\ storeCalls[c] = << >>
        /\ \E e \in Events(d) :
              /\ e.ev = "client-broadcast" /\ e.from = c /\ e.vol
              /\ Parse(e.data).type = "MOUSE_LOCATION"
              /\ Parse(e.data).payload.pointer = "xy"
              /\ Parse(e.data).payload.user = User("u2")

\* C10 (as stated): joined-data reaches the joining connection only, and the
\* room-user-change of a join never reaches the connection that joined.
C10_PresenceNotToJoiner ==
    \A c \in Conns : \A e \in Events(c) :
        /\ e.ev = "joined-data" => e.from = c
        /\ e.ev = "room-user-change" => e.from # c

\* C10 (amended): the step in which the Room Store answers a join sends to the
\* joining connection only, and what it sends is joined-data or room-not-found
\* (a snapshot is always answered with joined-data while the joiner is open);
\* the step that follows a snapshot appends one room-user-change of that join
\* for every connection that is in the room at that moment, the joining
\* connection included, and for no one else.
C10_SnapshotToJoinerPresenceToRoom ==
    [][\A s \in Slots :
          LET t == tasks[s] IN
          /\ (t.kind = "join" /\ t.pc = "syncing" /\ tasks'[s] # t) =>
                /\ \A d \in Conns : d # t.c => sentTo'[d] = sentTo[d]
                /\ sentTo'[t.c] # sentTo[t.c] =>
                      /\ Len(sentTo'[t.c]) = Len(sentTo[t.c]) + 1
                      /\ sentTo'[t.c][Len(sentTo'[t.c])].ev \in {"joined-data", "room-not-found"}
                      /\ sentTo'[t.c][Len(sentTo'[t.c])].from = t.c
                /\ (tasks'[s] # NoTask /\ conn[t.c].open) =>
                      /\ sentTo'[t.c] # sentTo[t.c]
                      /\ sentTo'[t.c][Len(sentTo'[t.c])].ev = "joined-data"
          /\ (t.kind = "join" /\ t.pc = "lookedOthers" /\ tasks'[s] # t /\ thrown' = thrown) =>
                \A d \in Conns :
                   IF t.room \in rooms[d]
                   THEN /\ Len(sentTo'[d]) = Len(sentTo[d]) + 1
                        /\ sentTo'[d][Len(sentTo'[d])].ev = "room-user-change"
                        /\ sentTo'[d][Len(sentTo'[d])].from = t.c
                        /\ sentTo'[d][Len(sentTo'[d])].room = t.room
                   ELSE sentTo'[d] = sentTo[d]]_vars

\* A connection joined a room that had a member, was sent the snapshot, and
\* both it and the member were sent the room-user-change of that join.
C10_Witness ==
    \E c, d \in Conns :
        /\ c # d
        /\ \E e \in Events(c) : e.ev = "joined-data" /\ e.from = c
        /\ \E e \in Events(c) : e.ev = "room-user-change" /\ e.from = c
        /\ \E e \in Events(d) : e.ev = "room-user-change" /\ e.from = c
        /\ \A e \in Events(d) : e.ev # "joined-data" \/ e.from = d

\* C11: a connection whose join was answered with room-not-found was sent no
\* snapshot, no connection was sent a room-user-change of that join, the Room
\* Store was called for the join once and not again, and the connection is
\* open unless its client has closed it.
C11_RoomNotFoundAndNothingElse ==
    \A c \in Conns :
        (\E e \in Events(c) : e.ev = "room-not-found" /\ e.from = c) =>
            /\ Count(c, LAMBDA e : e.ev = "room-not-found") = 1
            /\ \A d \in Conns : \A e \in Events(d) :
                  e.from = c => e.ev \notin {"joined-data", "room-user-change"}
            /\ Cardinality({ i \in DOMAIN storeCalls[c] : storeCalls[c][i].elements = "null" }) = 1
            /\ \A s \in Slots : tasks[s].kind = "join" => tasks[s].c # c
            /\ nOps.close = 0 => conn[c].open /\ conn[c].st = "connected"

\* A connection joined a room that has another member and was answered
\* room-not-found; it is still connected and in the room.
C11_Witness ==
    \E c, d \in Conns :
        /\ c # d /\ "d1" \in rooms[c] /\ "d1" \in rooms[d]
        /\ Len(joinLog) >= 2 /\ joinLog[Len(joinLog)].c = c
        /\ \E e \in Events(c) : e.ev = "room-not-found" /\ e.from = c
        /\ conn[c].open /\ conn[c].st = "connected" /\ Running = {}

\* C12: a has disconnected and its disconnecting handler has run to its end:
\* for each room a was in, its self-room apart, the handler called the Room
\* Store exactly once with no content delta and with the user ids of the
\* connections that remain in the room.
C12_DisconnectPushesRemainingMembers ==
    \A a \in Conns :
        ( /\ conn[a].st = "closed" /\ "disconnecting" \in ran[a]
          /\ Running = {} /\ thrown = {} )
        => \A l \in conn[a].left :
              Cardinality({ i \in DOMAIN storeCalls[a] :
                              /\ storeCalls[a][i].room = l.room
                              /\ storeCalls[a][i].elements = "null"
                              /\ storeCalls[a][i].token = "undefined"
                              /\ { storeCalls[a][i].userIds[j] : j \in DOMAIN storeCalls[a][i].userIds }
                                    = { conn[q].decoded.user.id : q \in l.peers } }) = 1

\* C13: in every member-id list passed to the Room Store each user id occurs
\* exactly once.
C13_MemberIdsDeduplicated ==
    \A c \in Conns : \A i \in DOMAIN storeCalls[c] :
        LET ids == storeCalls[c][i].userIds
        IN \A j, k \in DOMAIN ids : ids[j] = ids[k] => j = k

\* C14: a failure in a durable broadcast after its relay (decoding, member
\* enumeration, Room Store) is handled inside the handler: no invocation of
\* serverBroadcastHandler ends in a rejected promise that nothing catches.
C14_PersistenceFailureHandled ==
    \A x \in thrown : x.kind # "bcast"

\* C15: once a connection has closed and nothing of the server is pending for
\* it any more (its handshake and its handlers have ended), the session cache
\* holds no entry for its id.
C15_NoSessionDataAfterClose ==
    \A c \in Conns :
        ( /\ ~conn[c].open /\ conn[c].st = "closed" /\ conn[c].pc = "none"
          /\ \A s \in Slots : tasks[s] # NoTask => tasks[s].c # c )
        => socketData[c] = NoData

\* C16: a connection is sent read-only at most once, and only if its
\* permission level is 1; when it is sent it is the first event the connection
\* is sent; a connected connection of permission level 1 was sent it, and a
\* connection of another level never is.
C16_ReadOnlySignalOnceAndFirst ==
    \A c \in Conns :
        LET n == Count(c, LAMBDA e : e.ev = "read-only") IN
        /\ n <= 1
        /\ n = 1 => /\ conn[c].decoded # NoData
                    /\ conn[c].decoded.permissions = ReadOnlyPermission
                    /\ sentTo[c][1].ev = "read-only"
        /\ conn[c].decoded # NoData =>
              /\ (conn[c].st = "connected" /\ conn[c].decoded.permissions = ReadOnlyPermission)
                    => n = 1
              /\ conn[c].decoded.permissions # ReadOnlyPermission => n = 0

\* A read-only connection was sent read-only, then init-room, then the answer
\* to its join; a writable connection is connected beside it.
C16_Witness ==
    \E c, d \in Conns :
        /\ c # d /\ conn[c].st = "connected" /\ conn[d].st = "connected"
        /\ conn[c].decoded.permissions = ReadOnlyPermission
        /\ conn[d].decoded.permissions = WritePermission
        /\ Len(sentTo[c]) >= 3
        /\ sentTo[c][1].ev = "read-only" /\ sentTo[c][2].ev = "init-room"
        /\ \A e \in Events(d) : e.ev # "read-only"

\* C17: the step that rejects a handshake answers the connection with the
\* connect error 'Authentication error', whatever the reason, and changes
\* neither mapping of the session cache; a rejected connection has no session
\* entry; and the credential mapping gains an entry only in a step that
\* verifies a credential of ours whose expiry has not passed, the entry being
\* the claims that credential signs.
C17_FailedHandshakeLeavesNoState ==
    [][ /\ \A c \in Conns :
              (conn[c].st # "rejected" /\ conn'[c].st = "rejected") =>
                 /\ sentTo'[c] = Append(sentTo[c],
                       [ev |-> "connect_error", from |-> c, room |-> "",
                        data |-> << 65, 117, 116, 104 >>, iv |-> << >>, list |-> {},
                        vol |-> FALSE])
                 /\ tokenCache' = tokenCache
                 /\ socketData' = socketData
                 /\ socketData[c] = NoData
        /\ \A c \in Conns : conn[c].st = "rejected" => socketData'[c] = NoData
        /\ \A t \in Tokens :
              tokenCache'[t] # tokenCache[t] =>
                 /\ t \in SignedTokens /\ t \notin expired
                 /\ tokenCache[t] = NoData /\ tokenCache'[t] = Claims(t)
                 /\ \E c \in Conns : conn[c].token = t /\ conn'[c].verified
      ]_vars

\* Two handshakes were rejected, one for an expired credential and one for a
\* missing or unsigned one; both were answered alike, and the session cache
\* holds nothing.
C17_Witness ==
    \E c, d \in Conns :
        /\ c # d /\ conn[c].st = "rejected" /\ conn[d].st = "rejected"
        /\ conn[c].expiredAtHandshake /\ conn[d].token \in {NoToken, "tBad"}
        /\ sentTo[c] = << [sentTo[d][1] EXCEPT !.from = c] >>
        /\ \A t \in Tokens : tokenCache[t] = NoData
        /\ \A x \in Conns : socketData[x] = NoData

\* C18: when one connection submitted the first durable broadcast and then
\* the second into the same room, no peer holds the second before the first,
\* and the Room Store was not called with the second's content delta before
\* the first's.
C18_BroadcastsInOrderReceived ==
    \A c \in Conns :
        /\ \A d \in Conns : \A i, j \in DOMAIN sentTo[d] :
              ( /\ sentTo[d][i] = ClientBroadcast(c, "d1", RaceData[1], << 1 >>)
                /\ sentTo[d][j] = ClientBroadcast(c, "d1", RaceData[2], << 2 >>) )
              => i < j
        /\ \A i, j \in DOMAIN storeCalls[c] :
              ( /\ storeCalls[c][i].elements = Parse(RaceData[1]).payload.elements
                /\ storeCalls[c][j].elements = Parse(RaceData[2]).payload.elements )
              => i < j

\* C19: no handler whose own connection is open (so that the session entry
\* that is missing is another member's) fails in a membership enumeration by
\* reading the user of a missing session entry.
C19_EnumerationToleratesDisconnect ==
    \A x \in thrown :
        conn[x.c].open => x.at \notin {"getUserSockets", "userIds", "getOtherUserSockets"}

\* C20: a connection is in a room other than its self-room only if that room
\* is the fileId its credential authorizes.
C20_MemberOnlyOfAuthorizedRoom ==
    \A c \in Conns : \A r \in rooms[c] :
        r # SelfRoom(c) => conn[c].decoded.fileId = r

====
